---- MODULE Spec2Model ----
(***************************************************************************)
(* Model of the REST -> JSON:API normalizer (normalizeResource and the     *)
(* helpers it composes).  JavaScript values are tagged records; an object  *)
(* is the sequence of its <<key, value>> entries in insertion order.       *)
(***************************************************************************)
EXTENDS Integers, Sequences, FiniteSets, TLC

(* ------------------------------------------------------------------ *)
(* Bounds of the checked input space                                    *)
(* ------------------------------------------------------------------ *)
\* longest array placed under a payload key
MaxLen == 2

(* ------------------------------------------------------------------ *)
(* JavaScript values                                                    *)
(* ------------------------------------------------------------------ *)
Undef == [k |-> "undefined"]
Null == [k |-> "null"]
Bool(b) == [k |-> "boolean", b |-> b]
Num(n) == [k |-> "number", n |-> n]
Str(s) == [k |-> "string", s |-> s]
Arr(a) == [k |-> "array", a |-> a]
Obj(o) == [k |-> "object", o |-> o]
\* the outcome of an expression that raises a TypeError
TypeError == [k |-> "TypeError"]

IsArray(v) == v.k = "array"
IsNullish(v) == v.k \in {"undefined", "null"}

\* JavaScript truthiness (the test applied by ||, !, if and Array.find)
Truthy(v) ==
  CASE v.k = "undefined" -> FALSE
    [] v.k = "null" -> FALSE
    [] v.k = "boolean" -> v.b
    [] v.k = "number" -> v.n # 0
    [] v.k = "string" -> v.s # ""
    [] OTHER -> TRUE

\* key in object
Has(v, key) == v.k = "object" /\ \E i \in 1..Len(v.o) : v.o[i][1] = key

\* value[key]: undefined for an absent key or a value without own keys,
\* TypeError when value is undefined or null
Get(v, key) ==
  IF IsNullish(v) \/ v = TypeError THEN TypeError
  ELSE IF Has(v, key)
       THEN v.o[CHOOSE i \in 1..Len(v.o) : v.o[i][1] = key][2]
       ELSE Undef

\* obj[key] = val on an object: the key keeps its position, or is appended
Set(v, key, val) ==
  IF Has(v, key)
  THEN Obj([i \in 1..Len(v.o) |->
             IF v.o[i][1] = key THEN <<key, val>> ELSE v.o[i]])
  ELSE Obj(Append(v.o, <<key, val>>))

\* the object without the keys in the set ks
Without(v, ks) == Obj(SelectSeq(v.o, LAMBDA e : e[1] \notin ks))

Keys(v) == [i \in 1..Len(v.o) |-> v.o[i][1]]

\* the characters of a payload string; payload strings have at most one
\* character in the checked input space
Chars(s) == IF s = "" THEN << >> ELSE << Str(s) >>

\* { ...value }: own enumerable properties of value
Spread(v) ==
  CASE v.k = "object" -> v
    [] v.k = "array" ->
         Obj([i \in 1..Len(v.a) |-> <<ToString(i - 1), v.a[i]>>])
    [] v.k = "string" ->
         Obj([i \in 1..Len(Chars(v.s)) |-> <<ToString(i - 1), Chars(v.s)[i]>>])
    [] OTHER -> Obj(<< >>)

RECURSIVE JoinStrings(_)
JoinStrings(ss) ==
  IF Len(ss) = 0 THEN ""
  ELSE IF Len(ss) = 1 THEN ss[1]
  ELSE ss[1] \o "," \o JoinStrings(Tail(ss))

\* String(value), as a TLA+ string
RECURSIVE ToJsString(_)
ToJsString(v) ==
  CASE v.k = "undefined" -> "undefined"
    [] v.k = "null" -> "null"
    [] v.k = "boolean" -> IF v.b THEN "true" ELSE "false"
    [] v.k = "number" -> ToString(v.n)
    [] v.k = "string" -> v.s
    [] v.k = "array" ->
         JoinStrings([i \in 1..Len(v.a) |->
                       IF IsNullish(v.a[i]) THEN "" ELSE ToJsString(v.a[i])])
    [] OTHER -> "[object Object]"

String(v) == Str(ToJsString(v))

(* ------------------------------------------------------------------ *)
(* Type checks of the normalizer                                        *)
(* ------------------------------------------------------------------ *)
isObject(v) == v.k = "object"
isPrimitive(v) == v.k \in {"string", "number"}

\* English pluralization of a type name; uncountable nouns are their own
\* plural
Uncountable == {"sheep"}
pluralize(type) == IF type \in Uncountable THEN type ELSE type \o "s"

(* ------------------------------------------------------------------ *)
(* Schema registry                                                      *)
(* ------------------------------------------------------------------ *)
\* A registry is [table, mode, schemas]: table says whether the internal
\* type table (_schemas) exists; mode is how fields({type}) behaves
\* ("ok", "throws", or "nonIterable" when it returns no collection);
\* schemas lists [type, fields] in registration order.
SchemaIndex(schema, type) ==
  {i \in 1..Len(schema.schemas) : schema.schemas[i].type = type}

\* Array.from(schema.fields({ type }).values()); threw is TRUE when the
\* expression raises
SchemaFields(schema, type) ==
  IF schema.mode # "ok" \/ SchemaIndex(schema, type) = {}
  THEN [threw |-> TRUE, fields |-> << >>]
  ELSE [threw |-> FALSE,
        fields |-> schema.schemas[CHOOSE i \in SchemaIndex(schema, type) : TRUE].fields]

\* [...schema._schemas.keys()]
KnownTypes(schema) == [i \in 1..Len(schema.schemas) |-> schema.schemas[i].type]

(* ------------------------------------------------------------------ *)
(* Resource-shape inspection                                            *)
(* ------------------------------------------------------------------ *)
FirstIndex(seq, P(_)) ==
  IF \E i \in 1..Len(seq) : P(seq[i])
  THEN CHOOSE i \in 1..Len(seq) : P(seq[i]) /\ \A j \in 1..(i - 1) : ~P(seq[j])
  ELSE 0

detectResourceType(knownTypes, data) ==
  LET hit(type) == Truthy(Get(data, type)) \/ Truthy(Get(data, pluralize(type)))
      i == FirstIndex(knownTypes, hit)
  IN IF i = 0 THEN "unknown" ELSE knownTypes[i]

isCollectionResponse(knownTypes, data) ==
  \E i \in 1..Len(knownTypes) : Truthy(Get(data, pluralize(knownTypes[i])))

extractResourceId(resource) ==
  IF isPrimitive(resource) THEN String(resource)
  ELSE IF IsNullish(resource) THEN TypeError
  ELSE IF Truthy(Get(resource, "id")) THEN Get(resource, "id")
  ELSE IF Truthy(Get(resource, "slug")) THEN Get(resource, "slug")
  ELSE IF Truthy(Get(resource, "username")) THEN Get(resource, "username")
  ELSE Get(resource, "name")

PreferredNames == {"name", "title", "label", "text", "value"}

\* variant: the names are tried in the order of the list, the declared
\* fields in any order
propertyNameOf_byListOrder(type, schema) ==
  LET lookup == SchemaFields(schema, type)
      order == << "name", "title", "label", "text", "value" >>
      declared(n) == \E j \in 1..Len(lookup.fields) :
                       lookup.fields[j].kind = "field" /\ lookup.fields[j].name = n
      i == FirstIndex(order, declared)
  IN IF lookup.threw \/ i = 0 THEN "value" ELSE order[i]

\* the property that receives a primitive element
propertyNameOf(type, schema) ==
  LET lookup == SchemaFields(schema, type)
      isNameField(field) == field.kind = "field" /\ field.name \in PreferredNames
      i == FirstIndex(lookup.fields, isNameField)
  IN IF lookup.threw \/ i = 0 THEN "value" ELSE lookup.fields[i].name

normalizeResourceData(data, type, schema) ==
  LET pluralKey == pluralize(type)
      resourceArray == Get(data, pluralKey)
  IN IF ~IsArray(resourceArray) THEN data
     ELSE IF \E i \in 1..Len(resourceArray.a) : isPrimitive(resourceArray.a[i])
          THEN Set(data, pluralKey,
                   Arr([i \in 1..Len(resourceArray.a) |->
                         Obj(<< <<"id", String(resourceArray.a[i])>>,
                                <<propertyNameOf(type, schema), resourceArray.a[i]>> >>)]))
          ELSE data

getSchemaRelationships(schema, type) ==
  LET lookup == SchemaFields(schema, type)
      isRel(field) == field.kind \in {"belongsTo", "hasMany"}
      rels == SelectSeq(lookup.fields, isRel)
  IN IF lookup.threw THEN << >> ELSE [i \in 1..Len(rels) |-> rels[i].name]

(* ------------------------------------------------------------------ *)
(* Identifier back-fill, serialization, links and type rewriting        *)
(* ------------------------------------------------------------------ *)
\* one item of a relationship field, with its id assigned when missing
BackfillItem(item) ==
  IF isObject(item) /\ ~Truthy(Get(item, "id"))
  THEN Set(item, "id", extractResourceId(item))
  ELSE item

\* the resource as ensureRelationshipIds leaves it
RECURSIVE ensureRelationshipIds(_, _)
ensureRelationshipIds(resource, relationships) ==
  IF Len(relationships) = 0 THEN resource
  ELSE LET relName == Head(relationships)
           relData == Get(resource, relName)
           filled == IF IsArray(relData)
                     THEN Arr([i \in 1..Len(relData.a) |-> BackfillItem(relData.a[i])])
                     ELSE BackfillItem(relData)
           next == IF Truthy(relData) THEN Set(resource, relName, filled)
                   ELSE resource
       IN ensureRelationshipIds(next, Tail(relationships))

\* the items of a relationship value (singular or array)
RelItems(relData) == IF IsArray(relData) THEN relData.a ELSE << relData >>

RECURSIVE Flatten(_)
Flatten(seqs) == IF Len(seqs) = 0 THEN << >> ELSE Head(seqs) \o Flatten(Tail(seqs))

\* serialize(entity, type, { relationships, included }) of jsonapi-fractal:
\* the serializer uses the property name of a relationship as the type of
\* its linkage and of its included resources; a relationship without a
\* value gets no entry
Serialize(entity, type, relationships, included) ==
  LET present == SelectSeq(relationships, LAMBDA r : Truthy(Get(entity, r)))
      relSet == {relationships[i] : i \in 1..Len(relationships)}
      linkage(item, r) == Obj(<< <<"type", Str(r)>>, <<"id", Get(item, "id")>> >>)
      relEntry(r) ==
        LET relData == Get(entity, r)
        IN Obj(<< <<"data",
                    IF IsArray(relData)
                    THEN Arr([i \in 1..Len(relData.a) |-> linkage(relData.a[i], r)])
                    ELSE linkage(relData, r)>> >>)
      incEntry(item, r) ==
        Obj(<< <<"type", Str(r)>>, <<"id", Get(item, "id")>>,
               <<"attributes", Without(Spread(item), {"id"})>> >>)
      incOf(r) == LET items == RelItems(Get(entity, r))
                  IN [i \in 1..Len(items) |-> incEntry(items[i], r)]
      base == Obj(<< <<"type", Str(type)>>, <<"id", Get(entity, "id")>>,
                     <<"attributes", Without(entity, {"id"} \cup relSet)>> >>)
      data == IF Len(present) = 0 THEN base
              ELSE Set(base, "relationships",
                       Obj([i \in 1..Len(present) |-> <<present[i], relEntry(present[i])>>]))
      doc == Obj(<< <<"data", data>> >>)
  IN IF included
     THEN Set(doc, "included", Arr(Flatten([i \in 1..Len(present) |-> incOf(present[i])])))
     ELSE doc

\* the relationships object as addJsonApiLinks leaves it
addJsonApiLinks(relationships, baseUrl, resourceId) ==
  IF ~Truthy(relationships) THEN relationships
  ELSE Obj([i \in 1..Len(relationships.o) |->
         LET relName == relationships.o[i][1]
             prefix == baseUrl \o "/" \o ToJsString(resourceId)
         IN <<relName,
              Set(relationships.o[i][2], "links",
                  Obj(<< <<"related", Str(prefix \o "/" \o relName)>>,
                         <<"self", Str(prefix \o "/relationships/" \o relName)>> >>))>>])

\* relationshipTypeMap[key] || fallback
MappedTypeOr(relationshipTypeMap, key, fallback) ==
  IF Truthy(Get(relationshipTypeMap, key)) THEN Get(relationshipTypeMap, key)
  ELSE fallback

\* the included array as mapTypes returns it
mapTypesIncluded(data, relationshipTypeMap) ==
  IF Len(data.a) = 0 THEN Undef
  ELSE Arr([i \in 1..Len(data.a) |->
         Set(data.a[i], "type",
             MappedTypeOr(relationshipTypeMap, Get(data.a[i], "type").s,
                          Get(data.a[i], "type")))])

\* variant: only a singular relationship.data is retyped
mapTypesRelationships_singularOnly(data, relationshipTypeMap) ==
  Obj([i \in 1..Len(data.o) |->
    LET relName == data.o[i][1]
        relationship == data.o[i][2]
        targetType == Get(relationshipTypeMap, relName)
        relData == Get(relationship, "data")
    IN IF Truthy(targetType) /\ Truthy(relData) /\ ~IsArray(relData)
       THEN <<relName, Set(relationship, "data", Set(relData, "type", targetType))>>
       ELSE data.o[i]])

\* the relationships object as mapTypes leaves it
mapTypesRelationships(data, relationshipTypeMap) ==
  Obj([i \in 1..Len(data.o) |->
    LET relName == data.o[i][1]
        relationship == data.o[i][2]
        targetType == Get(relationshipTypeMap, relName)
        relData == Get(relationship, "data")
        retype(item) == Set(item, "type", targetType)
    IN IF Truthy(targetType) /\ Truthy(relData)
       THEN <<relName,
              Set(relationship, "data",
                  IF IsArray(relData)
                  THEN Arr([j \in 1..Len(relData.a) |-> retype(relData.a[j])])
                  ELSE retype(relData))>>
       ELSE data.o[i]])

mapTypes(data, relationshipTypeMap) ==
  IF ~Truthy(data) THEN data
  ELSE IF IsArray(data) THEN mapTypesIncluded(data, relationshipTypeMap)
  ELSE IF isObject(data) THEN mapTypesRelationships(data, relationshipTypeMap)
  ELSE data

\* serializeResource: [threw, resource (as mutated), result]
serializeResource(resource, type, relationships, hasRelationships) ==
  LET id == extractResourceId(resource)
      filled == IF hasRelationships
                THEN ensureRelationshipIds(resource, relationships)
                ELSE resource
  IN IF id = TypeError
     THEN [threw |-> TRUE, resource |-> resource, result |-> Undef]
     ELSE [threw |-> FALSE, resource |-> filled,
           result |-> Serialize(Set(Spread(filled), "id", id), type,
                                IF hasRelationships THEN relationships ELSE << >>,
                                hasRelationships)]

\* the single-resource branch of normalizeResourceRecursive
SingleResource(document, type, relationships, hasRelationships, url, relationshipTypeMap) ==
  LET resource == Get(document, type)
      ser == serializeResource(resource, type, relationships, hasRelationships)
      data == Get(ser.result, "data")
      linked == addJsonApiLinks(Get(data, "relationships"), url, Get(data, "id"))
      mapped == mapTypes(linked, relationshipTypeMap)
      data2 == IF Has(data, "relationships") THEN Set(data, "relationships", mapped)
               ELSE data
      result == Set(Set(ser.result, "data", data2), "included",
                    mapTypes(Get(ser.result, "included"), relationshipTypeMap))
  IN IF ser.threw THEN ser
     ELSE IF hasRelationships THEN [ser EXCEPT !.result = result]
     ELSE ser

(* ------------------------------------------------------------------ *)
(* Checked input space                                                  *)
(* ------------------------------------------------------------------ *)
Absent == [k |-> "absent"]
\* the object with the given entries, entries of an absent value omitted
MkObj(entries) == Obj(SelectSeq(entries, LAMBDA e : e[2] # Absent))

\* all sequences over S of length at most n
SeqsUpTo(S, n) == UNION {[1..m -> S] : m \in 0..n}

Falsy == {Num(0), Str(""), Null, Bool(FALSE)}
Scalars == {Num(7), Str("a"), Bool(TRUE)}

\* resource objects over the four identifier-bearing fields
IdObjects ==
  {MkObj(<< <<"id", i>>, <<"slug", s>>, <<"username", u>>, <<"name", n>> >>) :
     i \in {Absent, Num(0), Str(""), Num(5)}, s \in {Absent, Str("s")},
     u \in {Absent, Str("u")}, n \in {Absent, Str("n"), Str("")}}

TagElems == {Str("a"), Num(7), Num(0), MkObj(<< <<"id", Num(1)>>, <<"name", Str("n")>> >>)}

Authors == {Absent, MkObj(<< <<"username", Str("u")>> >>),
            MkObj(<< <<"id", Num(1)>>, <<"username", Str("u")>> >>)}
CommentElems == {MkObj(<< <<"id", Num(1)>>, <<"body", Str("b")>> >>),
                 MkObj(<< <<"name", Str("n")>> >>)}
CommentLists == {Absent} \cup {Arr(c) : c \in SeqsUpTo(CommentElems, MaxLen)}
Articles ==
  {MkObj(<< <<"slug", Str("s")>>, <<"title", Str("t")>>,
            <<"author", a>>, <<"comments", c>> >>) :
     a \in Authors, c \in CommentLists}
ArticleElems ==
  {MkObj(<< <<"slug", Str("s")>>, <<"title", Str("t")>> >>),
   MkObj(<< <<"slug", Str("s")>>, <<"author", MkObj(<< <<"username", Str("u")>> >>)>> >>),
   MkObj(<< <<"id", Num(5)>>,
            <<"author", MkObj(<< <<"id", Num(1)>> >>)>>,
            <<"comments", Arr(<< MkObj(<< <<"id", Num(1)>> >>),
                                 MkObj(<< <<"name", Str("n")>> >>) >>)>> >>)}

One(key, v) == Obj(<< <<key, v>> >>)
Two(k1, v1, k2, v2) == Obj(<< <<k1, v1>>, <<k2, v2>> >>)

SheepPayloads ==
  {One("sheep", v) :
     v \in {Arr(<< >>), Arr(<< Arr(<< >>) >>), Arr(<< Num(0) >>),
            Arr(<< Arr(<< Num(0) >>) >>), Arr(<< Arr(<< Arr(<< >>) >>) >>),
            Arr(<< MkObj(<< <<"id", Num(1)>> >>) >>),
            MkObj(<< <<"id", Num(1)>> >>)}}

Payloads ==
  {One("user", v) : v \in IdObjects}
  \cup {One("tag", v) : v \in Falsy \cup Scalars \cup {Obj(<< >>)}}
  \cup {One("tags", v) : v \in Falsy \cup Scalars \cup {MkObj(<< <<"id", Num(1)>> >>)}}
  \cup {One("tags", Arr(a)) : a \in SeqsUpTo(TagElems, MaxLen)}
  \cup {One("article", v) : v \in Articles}
  \cup {One("articles", Arr(a)) : a \in SeqsUpTo(ArticleElems, MaxLen)}
  \cup SheepPayloads
  \cup {Obj(<< >>), One("other", Num(1)), One("unknown", MkObj(<< <<"id", Num(1)>> >>)),
        Two("tags", Arr(<< Str("a") >>), "article", MkObj(<< <<"slug", Str("s")>> >>)),
        Two("user", MkObj(<< <<"id", Num(5)>> >>), "tag", Num(0)),
        Two("tag", Null, "users", Arr(<< MkObj(<< <<"id", Num(5)>> >>) >>))}

Field(name) == [kind |-> "field", name |-> name]
BelongsTo(name) == [kind |-> "belongsTo", name |-> name]
HasMany(name) == [kind |-> "hasMany", name |-> name]

TagSchema == [type |-> "tag", fields |-> << Field("name") >>]
TagSchemaValueFirst == [type |-> "tag", fields |-> << Field("value"), Field("name") >>]
TagSchemaPlain == [type |-> "tag", fields |-> << HasMany("title"), Field("bio") >>]
UserSchema == [type |-> "user", fields |-> << Field("username"), Field("bio") >>]
SheepSchema == [type |-> "sheep", fields |-> << Field("name") >>]
ArticleSchema ==
  [type |-> "article",
   fields |-> << Field("slug"), Field("title"), BelongsTo("author"), HasMany("comments") >>]

Registry(table, mode, schemas) == [table |-> table, mode |-> mode, schemas |-> schemas]
Registries ==
  {Registry(TRUE, "ok", << ArticleSchema, UserSchema, TagSchema, SheepSchema >>),
   Registry(TRUE, "ok", << TagSchemaValueFirst, ArticleSchema, UserSchema >>),
   Registry(TRUE, "ok", << UserSchema, TagSchemaPlain >>),
   Registry(TRUE, "throws", << ArticleSchema, TagSchema >>),
   Registry(TRUE, "nonIterable", << ArticleSchema, TagSchema >>),
   Registry(FALSE, "ok", << ArticleSchema, TagSchema >>)}

HandlerTypeMap == Obj(<< <<"author", Str("user")>>, <<"comments", Str("comment")>> >>)
TypeMaps == {HandlerTypeMap, Obj(<< <<"author", Str("user")>> >>), Obj(<< >>)}

BaseUrl == "/api"

(* ------------------------------------------------------------------ *)
(* State                                                                *)
(* ------------------------------------------------------------------ *)
VARIABLES
  item,                 \* the raw payload (coerced and back-filled in place)
  schema,               \* request.store.schema
  relationshipTypeMap,  \* the caller's relationship type map
  pc,                   \* position in normalizeResource
  type,                 \* the detected type
  relationships,        \* relationship field names of the type
  stack,                \* activation frames of normalizeResourceRecursive
  result,               \* the value returned by normalizeResource
  error                 \* the expression that raised, or "none"

vars == <<item, schema, relationshipTypeMap, pc, type, relationships, stack, result, error>>

hasRelationships == Len(relationships) > 0

Frame(document) ==
  [document |-> document, state |-> "Unclassified", idx |-> 1, resources |-> << >>]

Top == stack[Len(stack)]

Init ==
  /\ item \in Payloads
  /\ schema \in Registries
  /\ relationshipTypeMap \in TypeMaps
  /\ pc = "detect"
  /\ type = ""
  /\ relationships = << >>
  /\ stack = << >>
  /\ result = Undef
  /\ error = "none"

Throw(what) ==
  /\ pc' = "threw"
  /\ error' = what
  /\ stack' = << >>
  /\ UNCHANGED <<item, schema, relationshipTypeMap, type, relationships, result>>

(* ------------------------------------------------------------------ *)
(* normalizeResource                                                    *)
(* ------------------------------------------------------------------ *)
\* knownTypes = [...schema._schemas.keys()]; type = detectResourceType(...)
DetectType ==
  /\ pc = "detect"
  /\ IF ~schema.table
     THEN Throw("schema._schemas.keys")
     ELSE /\ type' = detectResourceType(KnownTypes(schema), item)
          /\ pc' = "coerce"
          /\ UNCHANGED <<item, schema, relationshipTypeMap, relationships, stack, result, error>>

\* document = normalizeResourceData(item, type, schema), in place
CoercePrimitives ==
  /\ pc = "coerce"
  /\ item' = normalizeResourceData(item, type, schema)
  /\ pc' = "relationships"
  /\ UNCHANGED <<schema, relationshipTypeMap, type, relationships, stack, result, error>>

\* relationships = getSchemaRelationships(schema, type), then the call of
\* normalizeResourceRecursive(document, ...)
ReadRelationships ==
  /\ pc = "relationships"
  /\ relationships' = getSchemaRelationships(schema, type)
  /\ stack' = << Frame(item) >>
  /\ pc' = "recurse"
  /\ UNCHANGED <<item, schema, relationshipTypeMap, type, result, error>>

(* ------------------------------------------------------------------ *)
(* normalizeResourceRecursive                                           *)
(* ------------------------------------------------------------------ *)
\* if (isCollectionResponse([type], document))
Classify ==
  /\ pc = "recurse"
  /\ Top.state = "Unclassified"
  /\ stack' = [stack EXCEPT ![Len(stack)].state =
                 IF isCollectionResponse(<< type >>, Top.document)
                 THEN "Collection" ELSE "SingleResource"]
  /\ UNCHANGED <<item, schema, relationshipTypeMap, pc, type, relationships, result, error>>

\* return of a call: to the caller of normalizeResource, or into the
\* resources of the collection frame below
Return(value, document) ==
  IF Len(stack) = 1
  THEN /\ result' = value
       /\ item' = document
       /\ pc' = "done"
       /\ stack' = << >>
       /\ UNCHANGED <<schema, relationshipTypeMap, type, relationships, error>>
  ELSE LET parent == stack[Len(stack) - 1]
           array == Get(parent.document, pluralize(type))
           written == Arr([array.a EXCEPT ![parent.idx] = Get(document, type)])
       IN /\ stack' = Append(SubSeq(stack, 1, Len(stack) - 2),
                        [parent EXCEPT !.document = Set(@, pluralize(type), written),
                                       !.idx = @ + 1,
                                       !.resources = Append(@, value)])
          /\ UNCHANGED <<item, schema, relationshipTypeMap, pc, type, relationships, result, error>>

\* document[pluralType].map(...): the call for the next element
CollectionElement ==
  /\ pc = "recurse"
  /\ Top.state = "Collection"
  /\ LET array == Get(Top.document, pluralize(type))
     IN IF ~IsArray(array)
        THEN Throw("document[pluralType].map")
        ELSE /\ Top.idx <= Len(array.a)
             /\ stack' = Append(stack, Frame(One(type, array.a[Top.idx])))
             /\ UNCHANGED <<item, schema, relationshipTypeMap, pc, type, relationships, result, error>>

\* r.included || [], flattened one level as flatMap does
IncludedOf(r) ==
  LET inc == Get(r, "included")
  IN IF ~Truthy(inc) THEN << >> ELSE IF IsArray(inc) THEN inc.a ELSE << inc >>

\* variant: the aggregated included list goes through mapTypes
CollectionResult_remapped(resources) ==
  LET base == Obj(<< <<"data", Arr([i \in 1..Len(resources) |-> Get(resources[i], "data")])>> >>)
  IN IF hasRelationships
     THEN Set(base, "included",
              mapTypes(Arr(Flatten([i \in 1..Len(resources) |-> IncludedOf(resources[i])])),
                       relationshipTypeMap))
     ELSE base

\* the result of the collection branch
CollectionResult(resources) ==
  LET base == Obj(<< <<"data", Arr([i \in 1..Len(resources) |-> Get(resources[i], "data")])>> >>)
  IN IF hasRelationships
     THEN Set(base, "included",
              Arr(Flatten([i \in 1..Len(resources) |-> IncludedOf(resources[i])])))
     ELSE base

\* every element is done: aggregate and return
CollectionReturn ==
  /\ pc = "recurse"
  /\ Top.state = "Collection"
  /\ IsArray(Get(Top.document, pluralize(type)))
  /\ Top.idx > Len(Get(Top.document, pluralize(type)).a)
  /\ Return(CollectionResult(Top.resources), Top.document)

\* the base case: serialize, link and rewrite one resource
SingleReturn ==
  /\ pc = "recurse"
  /\ Top.state = "SingleResource"
  /\ LET r == SingleResource(Top.document, type, relationships, hasRelationships,
                             BaseUrl, relationshipTypeMap)
     IN IF r.threw
        THEN Throw("extractResourceId(resource)")
        ELSE Return(r.result, Set(Top.document, type, r.resource))

Next ==
  \/ DetectType
  \/ CoercePrimitives
  \/ ReadRelationships
  \/ Classify
  \/ CollectionElement
  \/ CollectionReturn
  \/ SingleReturn

Spec == Init /\ [][Next]_vars

(* ------------------------------------------------------------------ *)
(* Properties                                                           *)
(* ------------------------------------------------------------------ *)
\* the array found under the plural key of the detected type
PluralValue == Get(item, pluralize(type))

\* C1: detectResourceType returns the first known type whose singular or
\* plural key exists in the payload, whatever value the key holds, and
\* "unknown" exactly when no known type has either key.
C1_DetectsByKeyPresence ==
  LET knownTypes == KnownTypes(schema)
      present(t) == Has(item, t) \/ Has(item, pluralize(t))
      i == FirstIndex(knownTypes, present)
  IN (schema.table /\ pc # "detect") =>
       type = IF i = 0 THEN "unknown" ELSE knownTypes[i]

\* C2: a call takes the Collection branch if and only if the plural key of
\* the type holds an array; a non-array value leads to the SingleResource
\* branch.
C2_CollectionIffArray ==
  \A i \in 1..Len(stack) :
    LET held == Get(stack[i].document, pluralize(type))
    IN /\ stack[i].state = "Collection" => IsArray(held)
       /\ stack[i].state = "SingleResource" => ~IsArray(held)

\* the first name of the preference order that a declared field carries
PreferenceOrder == << "name", "title", "label", "text", "value" >>
PreferredDeclared(t, sch) ==
  LET lookup == SchemaFields(sch, t)
      declared(n) == \E j \in 1..Len(lookup.fields) : lookup.fields[j].name = n
      i == FirstIndex(PreferenceOrder, declared)
  IN IF lookup.threw \/ i = 0 THEN "value" ELSE PreferenceOrder[i]

\* the first declared field, in declaration order, that is a plain field
\* with one of the common names
FirstDeclaredCommon(t, sch) ==
  LET lookup == SchemaFields(sch, t)
      common == {j \in 1..Len(lookup.fields) :
                   /\ lookup.fields[j].kind = "field"
                   /\ lookup.fields[j].name \in {"name", "title", "label", "text", "value"}}
  IN IF lookup.threw \/ common = {} THEN "value"
     ELSE lookup.fields[CHOOSE j \in common : \A m \in common : j <= m].name

Coerced(e, p) == Obj(<< <<"id", String(e)>>, <<p, e>> >>)

\* C3 as stated: the coercion replaces each primitive element e by
\* { id: String(e), [p]: e } with p the first name of the preference order
\* that is a declared field, and leaves object elements untouched.
C3_PreferenceOrderCoercion ==
  [][(pc = "coerce" /\ IsArray(PluralValue)
        /\ \E i \in 1..Len(PluralValue.a) : isPrimitive(PluralValue.a[i]))
     => LET before == PluralValue.a
            after == Get(item', pluralize(type))
            p == PreferredDeclared(type, schema)
        IN /\ IsArray(after) /\ Len(after.a) = Len(before)
           /\ \A i \in 1..Len(before) :
                after.a[i] = IF isPrimitive(before[i]) THEN Coerced(before[i], p)
                             ELSE before[i]]_vars

\* C3 amended: when some element is a primitive, every element e (object
\* elements included) becomes { id: String(e), [p]: e } with p the name of
\* the first declared field, in declaration order, of kind field and named
\* name, title, label, text or value ("value" when there is none or the
\* lookup throws); an array without primitive elements is left untouched.
C3_DeclarationOrderCoercion ==
  [][(pc = "coerce" /\ IsArray(PluralValue))
     => LET before == PluralValue.a
            after == Get(item', pluralize(type))
            p == FirstDeclaredCommon(type, schema)
        IN IF \E i \in 1..Len(before) : isPrimitive(before[i])
           THEN /\ IsArray(after) /\ Len(after.a) = Len(before)
                /\ \A i \in 1..Len(before) : after.a[i] = Coerced(before[i], p)
                /\ Keys(item') = Keys(item)
           ELSE item' = item]_vars

\* a primitive array was coerced under a schema declaring value before name
C3_Witness ==
  /\ pc = "relationships"
  /\ type = "tag"
  /\ schema.table /\ schema.mode = "ok" /\ schema.schemas[1] = TagSchemaValueFirst
  /\ Get(item, "tags") = Arr(<< Coerced(Str("a"), "value"), Coerced(Num(7), "value") >>)

\* the identifier the priority id > slug > username > name gives by presence
FirstPresentId(resource) ==
  IF isPrimitive(resource) THEN String(resource)
  ELSE IF Has(resource, "id") THEN Get(resource, "id")
  ELSE IF Has(resource, "slug") THEN Get(resource, "slug")
  ELSE IF Has(resource, "username") THEN Get(resource, "username")
  ELSE IF Has(resource, "name") THEN Get(resource, "name")
  ELSE Undef

\* C4: the identifier of a primitive resource is its string form and that
\* of an object is the value of the first present of id, slug, username,
\* name, even when that value is 0 or the empty string.
C4_FirstPresentField ==
  (pc = "done" /\ isObject(Get(result, "data"))
     /\ (isPrimitive(Get(item, type)) \/ isObject(Get(item, type))))
  => Get(Get(result, "data"), "id") = FirstPresentId(Get(item, type))

\* C5: a registry that is malformed or throws on the field lookup never
\* makes normalizeResource raise; the type just has no relationships and
\* the fragment carries no included array.
C5_SchemaFailuresNeverSurface ==
  (~schema.table \/ schema.mode # "ok")
  => /\ error # "schema._schemas.keys"
     /\ relationships = << >>
     /\ (pc = "done" => ~Has(result, "included"))

\* the type every linkage and included entry of relationship r must carry
ExpectedType(r) ==
  IF Has(relationshipTypeMap, r) THEN Get(relationshipTypeMap, r) ELSE Str(r)

\* the expected types of the included resources of one source resource
ExpectedIncludedTypes(resource) ==
  LET present == SelectSeq(relationships, LAMBDA r : Truthy(Get(resource, r)))
  IN Flatten([i \in 1..Len(present) |->
       [j \in 1..Len(RelItems(Get(resource, present[i]))) |-> ExpectedType(present[i])]])

LinkageTypesOK(data) ==
  LET rels == Get(data, "relationships")
  IN Has(data, "relationships") =>
       \A i \in 1..Len(rels.o) :
         LET items == RelItems(Get(rels.o[i][2], "data"))
         IN \A j \in 1..Len(items) : Get(items[j], "type") = ExpectedType(rels.o[i][1])

IncludedTypes(doc) ==
  LET inc == Get(doc, "included")
  IN IF IsArray(inc) THEN [i \in 1..Len(inc.a) |-> Get(inc.a[i], "type")] ELSE << >>

\* C6: for a type with relationships, every linkage of relationships[R]
\* and every included resource that came from R has type map[R] when R is
\* a key of the relationship type map and the serializer's type otherwise,
\* for a single resource and for each element of a collection.
C6_MappedRelationshipTypes ==
  (pc = "done" /\ hasRelationships)
  => LET data == Get(result, "data")
     IN IF IsArray(data)
        THEN /\ \A i \in 1..Len(data.a) : LinkageTypesOK(data.a[i])
             /\ IncludedTypes(result) =
                  Flatten([i \in 1..Len(PluralValue.a) |->
                            ExpectedIncludedTypes(PluralValue.a[i])])
        ELSE /\ LinkageTypesOK(data)
             /\ IncludedTypes(result) = ExpectedIncludedTypes(Get(item, type))

\* a collection whose hasMany relationship named comments was rewritten
C6_Witness ==
  /\ pc = "done"
  /\ hasRelationships
  /\ IsArray(Get(result, "data"))
  /\ Has(relationshipTypeMap, "comments")
  /\ \E i \in 1..Len(IncludedTypes(result)) : IncludedTypes(result)[i] = Str("comment")
  /\ \E i \in 1..Len(Get(result, "data").a) :
       LET rels == Get(Get(result, "data").a[i], "relationships")
       IN /\ Has(rels, "comments")
          /\ Get(Get(Get(rels, "comments"), "data").a[1], "type") = Str("comment")
          /\ Get(Get(Get(rels, "author"), "data"), "type") = Str("user")

\* C7: the data of a collection is, in order, the data each element gets
\* from the single-resource path, and included is the concatenation of the
\* elements' included lists when the type has relationships and is absent
\* otherwise.
C7_ElementsViaSinglePath ==
  (pc = "done" /\ IsArray(PluralValue))
  => LET elems == PluralValue.a
         single(e) == SingleResource(One(type, e), type, relationships,
                                     hasRelationships, BaseUrl, relationshipTypeMap)
     IN /\ \A i \in 1..Len(elems) : ~single(elems[i]).threw
        /\ Get(result, "data") =
             Arr([i \in 1..Len(elems) |-> Get(single(elems[i]).result, "data")])
        /\ IF hasRelationships
           THEN Get(result, "included") =
                  Arr(Flatten([i \in 1..Len(elems) |-> IncludedOf(single(elems[i]).result)]))
           ELSE ~Has(result, "included")

EmptyCollectionDone ==
  pc = "done" /\ hasRelationships /\ PluralValue = Arr(<< >>)

\* C8 as stated: an empty collection of a type with relationships is
\* returned with empty data and included undefined.
C8_EmptyIncludedUndefined ==
  EmptyCollectionDone
  => Get(result, "data") = Arr(<< >>) /\ Get(result, "included") = Undef

\* C8 amended: an empty collection of a type with relationships is
\* returned by normalizeResource with data the empty array and included
\* the empty array the collection branch aggregated, not undefined.
C8_EmptyIncludedArray ==
  EmptyCollectionDone
  => /\ Get(result, "data") = Arr(<< >>)
     /\ Has(result, "included")
     /\ Get(result, "included") = Arr(<< >>)

C8_Witness ==
  EmptyCollectionDone /\ item = One("articles", Arr(<< >>)) /\ type = "article"

\* C9: a payload without a key of any known type resolves to "unknown"
\* and normalizeResource does not raise on that account.
C9_UnknownTypeIsSoft ==
  type = "unknown" => pc # "threw"

\* C10: the call made for a wrapped singleton never takes the Collection
\* branch, so the recursion is at most one level deep.
C10_DepthAtMostOne ==
  /\ Len(stack) <= 2
  /\ \A i \in 2..Len(stack) : stack[i].state # "Collection"

====
